---- MODULE Spec2Model ----
(***************************************************************************)
(* A model of the Grover circuit builder (src/src/logic.py) and of the     *)
(* iteration planner (src/main.py).  Circuits are sequences of operation   *)
(* records, as QuantumCircuit keeps them in .data; the meaning of a gate   *)
(* list is its exact action on integer amplitude vectors that carry a      *)
(* count h of pending factors 1/sqrt(2) (one per Hadamard).                *)
(***************************************************************************)
EXTENDS Integers, Sequences, FiniteSets, TLC

\* ------------------------------------------------------------- bounds
\* Register sizes tried for the builder: 0..MaxN.
MaxN == 3
\* Iteration counts tried for build_circuit: 0..MaxIter.
MaxIter == 2
\* Register sizes tried for the planner: -2..MaxPlanN (and UnderflowExp).
MaxPlanN == 4

\* ------------------------------------------------------------- strings
\* A Python str is a sequence of one-character strings.
Chars == {"0", "1", "a"}

RECURSIVE StrOfLen(_)
StrOfLen(len) ==
    IF len = 0 THEN {<<>>}
    ELSE {Append(s, c) : s \in StrOfLen(len - 1), c \in Chars}

Strings == UNION {StrOfLen(len) : len \in 0..MaxN}

\* reversed(s)
reversed(s) == [i \in 1..Len(s) |-> s[Len(s) - i + 1]]

\* range(m) as a list: <<0, 1, ..., m-1>>
range(m) == [i \in 1..m |-> i - 1]

\* The same sequence, as an explicit tuple.
Tuple(s) == s \o <<>>

RECURSIVE Concat(_)
\* The concatenation of a sequence of sequences.
Concat(ss) == IF ss = <<>> THEN <<>> ELSE Head(ss) \o Concat(Tail(ss))

\* ------------------------------------------------------------- operations
\* One entry of QuantumCircuit.data: the operation's name, the lines it is
\* placed on, the classical lines it writes, and (for a composite
\* instruction) the gate list it stands for, over its own lines 0..m-1.
Op(name, qubits, clbits, definition) ==
    [name |-> name, qubits |-> qubits, clbits |-> clbits, definition |-> definition]

\* qc.x(i)
XGate(i) == Op("x", <<i>>, <<>>, <<>>)
\* qc.h(i)
HGate(i) == Op("h", <<i>>, <<>>, <<>>)
\* qc.mcx(controls, target)
MCXGate(controls, target) == Op("mcx", Append(controls, target), <<>>, <<>>)
\* qc.measure(q, c)
Measure(q, c) == Op("measure", <<q>>, <<c>>, <<>>)
\* qc.h(range(n)) / qc.x(range(n)): one gate per line, in line order
HAll(n) == [i \in 1..n |-> HGate(i - 1)]
XAll(n) == [i \in 1..n |-> XGate(i - 1)]
\* qc.measure(range(n), range(n)): line i into classical line i
MeasureAll(n) == [i \in 1..n |-> Measure(i - 1, i - 1)]

NoValue == [kind |-> "none"]
Raise(exc, at) == [kind |-> "raise", exc |-> exc, at |-> at]
Instruction(name, n, gates) ==
    [kind |-> "instruction", name |-> name, num_qubits |-> n, definition |-> gates]
Circuit(n, m, data) ==
    [kind |-> "circuit", num_qubits |-> n, num_clbits |-> m, data |-> data]
IntValue(v) == [kind |-> "int", value |-> v]

\* ------------------------------------------------------------- state
VARIABLES
    self,   \* the GroverAlgorithm object (self.n, self.target), or NoObject
    ctor,   \* the arguments the object in self was constructed with
    call,   \* the call made last
    prev,   \* the call made before it
    ret,    \* what the last call returned or raised
    sim     \* the ideal executor's result for ret

vars == <<self, ctor, call, prev, ret, sim>>

NoObject == [n |-> -1, target |-> <<>>]
NoCall == [op |-> "none", n |-> 0, target |-> <<>>, k |-> 0]
\* What is remembered of the call before the last: its name and count.
Earlier(c) == [op |-> c.op, k |-> IF c.op = "build_circuit" THEN c.k ELSE 0]
NoSim == [kind |-> "none"]

\* ------------------------------------------------------------- GroverAlgorithm
\* A constructor that forgets the length check.
GroverInitUnchecked(n_qubits, target_state) ==
    [obj |-> [n |-> n_qubits, target |-> target_state], val |-> NoValue]

\* __init__: assigns n and target, then rejects a length mismatch.  A
\* constructor that raises returns no object.
GroverInit(n_qubits, target_state) ==
    LET obj == [n |-> n_qubits, target |-> target_state]
    IN  IF Len(target_state) # n_qubits
        THEN [obj |-> NoObject, val |-> Raise("ValueError", "__init__")]
        ELSE [obj |-> obj, val |-> NoValue]

\* The X wrapping without reversed(): the leftmost character on line 0.
WrapXGatesForward(target) ==
    Concat([j \in 1..Len(target) |-> IF target[j] = "0" THEN <<XGate(j - 1)>> ELSE <<>>])

\* The X wrapping on the '1' characters instead of the '0' characters.
WrapXGatesOnOnes(target) ==
    LET r == reversed(target)
    IN  Concat([j \in 1..Len(r) |-> IF r[j] = "1" THEN <<XGate(j - 1)>> ELSE <<>>])

\* for i, bit in enumerate(reversed(target)): if bit == '0': qc.x(i)
WrapXGates(target) ==
    LET r == reversed(target)
    IN  Concat([j \in 1..Len(r) |-> IF r[j] = "0" THEN <<XGate(j - 1)>> ELSE <<>>])

\* qc.h(n-1); qc.mcx(list(range(n-1)), n-1); qc.h(n-1)
MCZSandwich(n) == <<HGate(n - 1), MCXGate(range(n - 1), n - 1), HGate(n - 1)>>

\* What placing the sandwich on a circuit of n lines raises: qc.h(n-1) needs
\* line n-1 to exist, and qc.mcx refuses an empty control list (a controlled
\* gate has at least one control).
SandwichError(n) ==
    IF n < 1 THEN "CircuitError"
    ELSE IF Len(range(n - 1)) < 1 THEN "CircuitError"
    ELSE "none"

\* An oracle builder that reverses self.target in place while reading it.
create_oracle_reversing(obj) ==
    LET gates == WrapXGates(obj.target) \o MCZSandwich(obj.n) \o WrapXGates(obj.target)
        after == [obj EXCEPT !.target = Tuple(reversed(obj.target))]
    IN  IF SandwichError(obj.n) # "none"
        THEN [obj |-> obj, val |-> Raise(SandwichError(obj.n), "create_oracle")]
        ELSE [obj |-> after, val |-> Instruction("Oracle (Z_f)", obj.n, gates)]

create_oracle(obj) ==
    LET gates == WrapXGates(obj.target) \o MCZSandwich(obj.n) \o WrapXGates(obj.target)
    IN  IF SandwichError(obj.n) # "none"
        THEN [obj |-> obj, val |-> Raise(SandwichError(obj.n), "create_oracle")]
        ELSE [obj |-> obj, val |-> Instruction("Oracle (Z_f)", obj.n, gates)]

\* A diffuser without the X layers: a reflection about H|1...1>, not about
\* the uniform superposition.
create_diffuser_without_x(obj) ==
    LET gates == HAll(obj.n) \o MCZSandwich(obj.n) \o HAll(obj.n)
    IN  IF SandwichError(obj.n) # "none"
        THEN [obj |-> obj, val |-> Raise(SandwichError(obj.n), "create_diffuser")]
        ELSE [obj |-> obj, val |-> Instruction("Diffuser (D)", obj.n, gates)]

create_diffuser(obj) ==
    LET gates == HAll(obj.n) \o XAll(obj.n) \o MCZSandwich(obj.n)
                 \o XAll(obj.n) \o HAll(obj.n)
    IN  IF SandwichError(obj.n) # "none"
        THEN [obj |-> obj, val |-> Raise(SandwichError(obj.n), "create_diffuser")]
        ELSE [obj |-> obj, val |-> Instruction("Diffuser (D)", obj.n, gates)]

\* qc.append(instruction, range(n))
Place(instr, n) == Op(instr.name, range(n), <<>>, instr.definition)

RECURSIVE GroverLoopDiffuserFirst(_, _, _, _, _)
\* The loop with its two appends swapped.
GroverLoopDiffuserFirst(data, oracle, diffuser, n, remaining) ==
    IF remaining <= 0 THEN data
    ELSE GroverLoopDiffuserFirst(Append(Append(data, Place(diffuser, n)), Place(oracle, n)),
                                 oracle, diffuser, n, remaining - 1)

RECURSIVE GroverLoop(_, _, _, _, _)
\* for _ in range(iterations): qc.append(oracle, ...); qc.append(diffuser, ...)
GroverLoop(data, oracle, diffuser, n, remaining) ==
    IF remaining <= 0 THEN data
    ELSE GroverLoop(Append(Append(data, Place(oracle, n)), Place(diffuser, n)),
                    oracle, diffuser, n, remaining - 1)

build_circuit(obj, iterations) ==
    LET init     == HAll(obj.n)
        oracle   == create_oracle(obj)
        diffuser == create_diffuser(oracle.obj)
        looped   == GroverLoop(init, oracle.val, diffuser.val, obj.n, iterations)
    IN  IF oracle.val.kind = "raise" THEN [obj |-> oracle.obj, val |-> oracle.val]
        ELSE IF diffuser.val.kind = "raise"
             THEN [obj |-> diffuser.obj, val |-> diffuser.val]
        ELSE [obj |-> diffuser.obj,
              val |-> Circuit(obj.n, obj.n, looped \o MeasureAll(obj.n))]

\* ------------------------------------------------------------- gate semantics
\* A register state of n lines: the sequence amp of 2^n integers, amp[x + 1]
\* for basis index x (bit q of x is line q), standing for the amplitudes
\* amp[x + 1] / sqrt(2)^h.
Bit(x, q) == (x \div (2 ^ q)) % 2
Flip(x, q) == IF Bit(x, q) = 0 THEN x + 2 ^ q ELSE x - 2 ^ q

RECURSIVE Normalise(_)
\* The representative with the smallest h: two pending Hadamard factors
\* cancel against a common factor 2.
Normalise(st) ==
    IF st.h >= 2 /\ \A i \in DOMAIN st.amp : st.amp[i] % 2 = 0
    THEN Normalise([amp |-> Tuple([i \in DOMAIN st.amp |-> st.amp[i] \div 2]),
                    h |-> st.h - 2])
    ELSE st

ApplyX(st, q) ==
    [amp |-> Tuple([i \in DOMAIN st.amp |-> st.amp[Flip(i - 1, q) + 1]]), h |-> st.h]

ApplyH(st, q) ==
    Normalise([amp |-> Tuple([i \in DOMAIN st.amp |->
                                IF Bit(i - 1, q) = 0
                                THEN st.amp[i] + st.amp[Flip(i - 1, q) + 1]
                                ELSE st.amp[Flip(i - 1, q) + 1] - st.amp[i]]),
               h |-> st.h + 1])

\* qubits = controls followed by the target line
ApplyMCX(st, qubits) ==
    LET t == qubits[Len(qubits)]
        controls == {qubits[j] : j \in 1..(Len(qubits) - 1)}
    IN  [amp |-> Tuple([i \in DOMAIN st.amp |->
                          IF \A c \in controls : Bit(i - 1, c) = 1
                          THEN st.amp[Flip(i - 1, t) + 1]
                          ELSE st.amp[i]]),
         h |-> st.h]

\* A gate of a composite's definition, moved onto the lines it is placed on.
OnLines(g, lines) ==
    Op(g.name, [j \in 1..Len(g.qubits) |-> lines[g.qubits[j] + 1]], g.clbits, g.definition)

RECURSIVE RunGates(_, _)
\* The state after the operations of `data`, in order.  A measurement is
\* the last thing on its line and leaves the amplitudes to read.
RunGates(st, data) ==
    IF data = <<>> THEN st
    ELSE LET g == Head(data)
             next == CASE g.name = "x" -> ApplyX(st, g.qubits[1])
                       [] g.name = "h" -> ApplyH(st, g.qubits[1])
                       [] g.name = "mcx" -> ApplyMCX(st, g.qubits)
                       [] g.name = "measure" -> st
                       [] OTHER -> RunGates(st, [j \in 1..Len(g.definition) |->
                                                   OnLines(g.definition[j], g.qubits)])
         IN  IF next.h >= 0 THEN RunGates(next, Tail(data)) ELSE next

\* The basis state |x> of n lines.
Basis(n, x) == [amp |-> Tuple([i \in 1..(2 ^ n) |-> IF i = x + 1 THEN 1 ELSE 0]), h |-> 0]

\* The line read into classical line c (the last measurement into c).
Readout(data, c) ==
    LET js == {j \in 1..Len(data) : data[j].name = "measure" /\ data[j].clbits[1] = c}
    IN  data[CHOOSE j \in js : \A i \in js : i <= j].qubits[1]

\* The executor's key for basis index x: classical line m-1 leftmost,
\* classical line 0 rightmost.
OutcomeKey(circ, x) ==
    [j \in 1..circ.num_clbits |->
        IF Bit(x, Readout(circ.data, circ.num_clbits - j)) = 1 THEN "1" ELSE "0"]

\* The ideal outcome distribution of a circuit started in |0...0>: for each
\* basis index x (at x + 1) its key and its weight amp^2, out of 2^h.
IdealRun(circ) ==
    LET st == RunGates(Basis(circ.num_qubits, 0), circ.data)
    IN  [kind |-> "dist",
         weight |-> [i \in DOMAIN st.amp |-> st.amp[i] * st.amp[i]],
         key |-> [i \in DOMAIN st.amp |-> OutcomeKey(circ, i - 1)],
         total |-> 2 ^ st.h]

\* An instruction applied to a given register state.
IdealApply(instr, st) ==
    [kind |-> "state", input |-> st, output |-> RunGates(st, instr.definition)]

\* ------------------------------------------------------------- planner
\* Fixed-point scale of the sine table below.
Scale == 1000000
\* n_solutions / N with N = 2**n_qubits underflows to 0.0 once the quotient
\* is at most 2^-1075 (half the smallest subnormal double).
UnderflowExp == 1075

\* sin^2(pi / (4j)) in units of 1/Scale (rounded down; exact for j = 1).
SinSqQuarter(j) ==
    CASE j = 1 -> 500000 [] j = 2 -> 146446 [] j = 3 -> 66987 [] j = 4 -> 38060
      [] j = 5 -> 24471  [] j = 6 -> 17037  [] j = 7 -> 12536 [] j = 8 -> 9607
      [] j = 9 -> 7596   [] j = 10 -> 6155  [] j = 11 -> 5089
TableLen == 11

\* N = 2**n_qubits and n_solutions / N, as an exact fraction: an int for
\* n_qubits >= 0, the float 2^n_qubits below; 0.0 on underflow.
TrueDiv(n_solutions, n_qubits) ==
    IF n_qubits >= UnderflowExp
    THEN IF n_solutions <= 2 ^ (n_qubits - UnderflowExp)
            /\ -n_solutions <= 2 ^ (n_qubits - UnderflowExp)
         THEN [num |-> 0, den |-> 1]
         ELSE [num |-> n_solutions, den |-> 0]
    ELSE IF n_qubits >= 0 THEN [num |-> n_solutions, den |-> 2 ^ n_qubits]
    ELSE [num |-> n_solutions * 2 ^ (-n_qubits), den |-> 1]

\* theta = asin(sqrt(ratio)) <= pi / (4j), for 0 < ratio <= 1
ThetaAtMost(ratio, j) == ratio.num * Scale <= ratio.den * SinSqQuarter(j)

RECURSIVE FloorQuarter(_, _)
\* floor(pi / (4 theta)): the largest j >= 0 with theta <= pi / (4j)
FloorQuarter(ratio, j) ==
    IF j < TableLen /\ ThetaAtMost(ratio, j + 1) THEN FloorQuarter(ratio, j + 1) ELSE j

\* A round() that takes a tie up instead of to the even neighbour.
PyRoundHalfUp(fl, tie) == fl

\* round(v) for v = y - 0.5, where fl = floor(y) and tie says y is whole
\* (v is then fl - 0.5, half way between fl - 1 and fl): Python rounds a
\* tie to the even neighbour.
PyRound(fl, tie) == IF tie THEN (IF fl % 2 = 0 THEN fl ELSE fl - 1) ELSE fl

calculate_optimal_iterations(n_qubits, n_solutions) ==
    LET ratio == TrueDiv(n_solutions, n_qubits)
        fl    == FloorQuarter(ratio, 0)
        tie   == fl >= 1 /\ ratio.num * Scale = ratio.den * SinSqQuarter(fl)
    IN  IF ratio.num < 0 THEN Raise("ValueError", "sqrt")
        ELSE IF ratio.num > ratio.den THEN Raise("ValueError", "asin")
        ELSE IF ratio.num = 0 THEN Raise("ZeroDivisionError", "division")
        ELSE IntValue(PyRound(fl, tie))

\* ------------------------------------------------------------- inputs
RegisterSizes == 0..MaxN
IterationCounts == 0..MaxIter
PlannerSizes == (-2..MaxPlanN) \cup {UnderflowExp}
PlannerSolutions(n) ==
    IF n >= UnderflowExp THEN -1..1
    ELSE IF n >= 0 THEN -1..(2 ^ n + 1)
    ELSE -1..2

\* Register states an instruction is tried on: every basis state |x>, and
\* the superpositions (|0> + |y>)/sqrt(2) and (|0> - |y>)/sqrt(2) of the
\* first basis state with the last one, y = 2^n - 1.
TestStates(n) ==
    {Basis(n, x) : x \in 0..(2 ^ n - 1)}
    \cup {[amp |-> Tuple([i \in 1..(2 ^ n) |->
                            IF i = 1 THEN 1 ELSE IF i = 2 ^ n THEN sgn ELSE 0]),
           h |-> 1] : sgn \in IF n >= 1 THEN {-1, 1} ELSE {}}

\* ------------------------------------------------------------- actions
Init ==
    /\ self = NoObject
    /\ ctor = NoObject
    /\ call = NoCall
    /\ prev = Earlier(NoCall)
    /\ ret = NoValue
    /\ sim = NoSim

\* Nothing catches an exception of the core: it ends the run.  So does the
\* executor's result, which is the last thing read.
Running == ret.kind # "raise" /\ sim = NoSim

\* grover = GroverAlgorithm(n, t)
Construct(n, t) ==
    /\ Running
    /\ self = NoObject
    /\ self' = GroverInit(n, t).obj
    /\ ret' = GroverInit(n, t).val
    /\ ctor' = IF GroverInit(n, t).obj = NoObject THEN ctor ELSE [n |-> n, target |-> t]
    /\ call' = [op |-> "__init__", n |-> n, target |-> t, k |-> 0]
    /\ prev' = Earlier(call)
    /\ sim' = NoSim

\* grover.create_oracle()
CreateOracle ==
    /\ Running
    /\ self # NoObject
    /\ self' = create_oracle(self).obj
    /\ ret' = create_oracle(self).val
    /\ call' = [op |-> "create_oracle", n |-> self.n, target |-> self.target, k |-> 0]
    /\ prev' = Earlier(call)
    /\ sim' = NoSim
    /\ UNCHANGED ctor

\* grover.create_diffuser()
CreateDiffuser ==
    /\ Running
    /\ self # NoObject
    /\ self' = create_diffuser(self).obj
    /\ ret' = create_diffuser(self).val
    /\ call' = [op |-> "create_diffuser", n |-> self.n, target |-> self.target, k |-> 0]
    /\ prev' = Earlier(call)
    /\ sim' = NoSim
    /\ UNCHANGED ctor

\* grover.build_circuit(k)
BuildCircuit(k) ==
    /\ Running
    /\ self # NoObject
    /\ self' = build_circuit(self, k).obj
    /\ ret' = build_circuit(self, k).val
    /\ call' = [op |-> "build_circuit", n |-> self.n, target |-> self.target, k |-> k]
    /\ prev' = Earlier(call)
    /\ sim' = NoSim
    /\ UNCHANGED ctor

\* t_opt = calculate_optimal_iterations(n, m), which main calls before it
\* constructs the builder.
Plan(n, m) ==
    /\ Running
    /\ self = NoObject
    /\ ret' = calculate_optimal_iterations(n, m)
    /\ call' = [op |-> "calculate_optimal_iterations", n |-> n, target |-> <<>>, k |-> m]
    /\ prev' = Earlier(call)
    /\ sim' = NoSim
    /\ UNCHANGED <<self, ctor>>

\* The returned instruction applied, once, to a register state by an ideal
\* executor.
ApplyInstruction(st) ==
    /\ ret.kind = "instruction"
    /\ sim = NoSim
    /\ sim' = IdealApply(ret, st)
    /\ UNCHANGED <<self, ctor, call, prev, ret>>

\* The returned circuit run, once, by an ideal (noiseless) executor.
RunCircuit ==
    /\ ret.kind = "circuit"
    /\ sim = NoSim
    /\ sim' = IdealRun(ret)
    /\ UNCHANGED <<self, ctor, call, prev, ret>>

Next ==
    \/ \E n \in RegisterSizes, t \in Strings : Construct(n, t)
    \/ CreateOracle
    \/ CreateDiffuser
    \/ \E k \in IterationCounts : BuildCircuit(k)
    \/ \E n \in PlannerSizes : \E m \in PlannerSolutions(n) : Plan(n, m)
    \/ \E st \in TestStates(IF ret.kind = "instruction" /\ sim = NoSim
                              THEN ret.num_qubits ELSE 0) : ApplyInstruction(st)
    \/ RunCircuit

Spec == Init /\ [][Next]_vars

\* ------------------------------------------------------------- properties
\* A target over the alphabet {'0', '1'}.
BinaryString(t) == \A i \in 1..Len(t) : t[i] \in {"0", "1"}

\* Basis index x spells the target with the rightmost character on line 0.
Spells(x, target) ==
    \A i \in 0..(Len(target) - 1) : (Bit(x, i) = 1) <=> (target[Len(target) - i] = "1")

\* The lines whose target character, counted from the right, is '0'.
ZeroLines(target) == {i \in 0..(Len(target) - 1) : target[Len(target) - i] = "0"}

\* C1: for n >= 1 and a target over {'0','1'}, the operator create_oracle
\* returns (whenever it returns one) is X on each line whose target character (from the right) is '0',
\* then H, multi-controlled X, H on line n-1 with controls 0..n-2, then the
\* same X gates again; it maps the basis state |x> to -|x> when x spells the
\* target (rightmost character = line 0) and to |x> for every other x.
OracleFlipsOnlyTarget ==
    (/\ call.op = "create_oracle"
     /\ ret.kind = "instruction"
     /\ self.n >= 1
     /\ BinaryString(self.target))
    => LET n  == self.n
           d  == ret.definition
           nz == Cardinality(ZeroLines(self.target))
       IN  /\ Len(d) = 2 * nz + 3
           /\ {d[j] : j \in 1..nz} = {XGate(i) : i \in ZeroLines(self.target)}
           /\ d[nz + 1] = HGate(n - 1)
           /\ d[nz + 2] = MCXGate(range(n - 1), n - 1)
           /\ d[nz + 3] = HGate(n - 1)
           /\ \A j \in 1..nz : d[nz + 3 + j] = d[j]
           /\ (sim.kind = "state" /\ sim.input.h = 0)
              => /\ sim.output.h = 0
                 /\ \A i \in DOMAIN sim.input.amp :
                       sim.output.amp[i] = IF Spells(i - 1, self.target)
                                           THEN -sim.input.amp[i]
                                           ELSE sim.input.amp[i]

\* C1 happens: the oracle for "110" has turned |110> (index 6) into -|110>.
OracleFlipsOnlyTargetWitness ==
    /\ call.op = "create_oracle"
    /\ self = [n |-> 3, target |-> <<"1", "1", "0">>]
    /\ sim.kind = "state"
    /\ sim.input = Basis(3, 6)
    /\ sim.output.amp[7] = -1

\* C2: the circuit build_circuit(k) returns is a Hadamard on each of the n
\* lines, then k pairs (Oracle on lines 0..n-1, then Diffuser on lines
\* 0..n-1), then the measurement of each line i into classical line i: k
\* Oracle and k Diffuser placements, none for k = 0.
CircuitIsInitRoundsMeasure ==
    (call.op = "build_circuit" /\ ret.kind = "circuit")
    => LET n == self.n
           k == call.k
           d == ret.data
       IN  /\ ret.num_qubits = n /\ ret.num_clbits = n
           /\ Len(d) = n + 2 * k + n
           /\ \A i \in 1..n : d[i] = HGate(i - 1)
           /\ \A j \in 1..k :
                /\ d[n + 2 * j - 1] = Op("Oracle (Z_f)", range(n), <<>>,
                                          create_oracle(self).val.definition)
                /\ d[n + 2 * j] = Op("Diffuser (D)", range(n), <<>>,
                                      create_diffuser(self).val.definition)
           /\ \A i \in 1..n : d[n + 2 * k + i] = Measure(i - 1, i - 1)
           /\ Cardinality({j \in 1..Len(d) : d[j].name = "Oracle (Z_f)"}) = k
           /\ Cardinality({j \in 1..Len(d) : d[j].name = "Diffuser (D)"}) = k

\* C2 happens: a three-line circuit of two rounds has been built.
CircuitIsInitRoundsMeasureWitness ==
    /\ call.op = "build_circuit"
    /\ call.k = 2
    /\ self.n = 3
    /\ ret.kind = "circuit"
    /\ Len(ret.data) = 10

RECURSIVE SumAmp(_)
\* The sum of a sequence of amplitudes.
SumAmp(amp) == IF amp = <<>> THEN 0 ELSE Head(amp) + SumAmp(Tail(amp))

\* The state with amplitudes sign * (N * a_x - 2 * sum(a)) / N, N = 2^n: the
\* reflection a_x -> 2 * mean(a) - a_x for sign = -1, its negative for sign = 1.
AboutMean(st, n, sign) ==
    Normalise([amp |-> Tuple([i \in DOMAIN st.amp |->
                                sign * (2 ^ n * st.amp[i] - 2 * SumAmp(st.amp))]),
               h |-> st.h + 2 * n])

DiffuserApplied ==
    /\ call.op = "create_diffuser"
    /\ ret.kind = "instruction"
    /\ self.n >= 1
    /\ sim.kind = "state"

LengthMismatchRejected ==
    /\ call.op = "__init__"
       => IF Len(call.target) # call.n
          THEN ret = Raise("ValueError", "__init__") /\ self = NoObject
          ELSE ret.kind # "raise" /\ self = [n |-> call.n, target |-> call.target]
    /\ self # NoObject => Len(self.target) = self.n
    /\ ret.kind \in {"instruction", "circuit"} => Len(self.target) = ret.num_qubits

\* C4 happens: GroverAlgorithm(2, "101") has raised.
LengthMismatchRejectedWitness ==
    /\ call.op = "__init__"
    /\ call.n = 2
    /\ call.target = <<"1", "0", "1">>
    /\ ret.kind = "raise"
    /\ self = NoObject

\* C5 as claimed: a target of the right length with a character outside
\* {'0','1'} is rejected at construction, and no oracle or circuit is built
\* for such a target.
NonBinaryTargetRejected ==
    /\ (call.op = "__init__" /\ Len(call.target) = call.n /\ ~BinaryString(call.target))
       => ret.kind = "raise" /\ self = NoObject
    /\ ret.kind \in {"instruction", "circuit"} => BinaryString(self.target)

\* The parameters C6 calls invalid: n_solutions outside [1, 2^n_qubits], or
\* n_qubits zero or negative.
InvalidPlannerCall ==
    /\ call.op = "calculate_optimal_iterations"
    /\ \/ call.n <= 0
       \/ call.k < 1
       \/ (call.n <= MaxPlanN /\ call.k > 2 ^ call.n)

\* C6 as claimed: invalid parameters make calculate_optimal_iterations raise
\* its parameter error before any of sqrt, asin or the division; it neither
\* returns a value nor fails with a math error.
PlannerRejectsInvalidParameters ==
    InvalidPlannerCall => ret.kind = "raise" /\ ret.at = "validation"

\* The integer v is round(pi / (4 * asin(sqrt(num / den))) - 0.5) with ties
\* to even, stated without computing it: with y = pi / (4 * asin(sqrt(num /
\* den))), v <= y <= v + 1, and v is even when y is v or v + 1 (the value
\* y - 0.5 is then half way between two integers).
IsRoundedQuarterTurns(v, num, den) ==
    /\ v >= 0
    /\ v >= 1 => num * Scale <= den * SinSqQuarter(v)
    /\ num * Scale >= den * SinSqQuarter(v + 1)
    /\ (v >= 1 /\ num * Scale = den * SinSqQuarter(v)) => v % 2 = 0
    /\ num * Scale = den * SinSqQuarter(v + 1) => v % 2 = 0

SingleLineBuilds ==
    (/\ call.op \in {"create_oracle", "build_circuit"}
     /\ self.n = 1
     /\ BinaryString(self.target))
    => /\ ret.kind # "raise"
       /\ call.op = "create_oracle"
          => ret.definition =
               IF self.target = <<"0">>
               THEN <<XGate(0), HGate(0), MCXGate(<<>>, 0), HGate(0), XGate(0)>>
               ELSE <<HGate(0), MCXGate(<<>>, 0), HGate(0)>>

\* C9: for n = 3, target "101" and 2 iterations, the ideal outcome
\* distribution of the circuit build_circuit returns, keyed as the executor
\* keys it, has the target as its single most probable outcome, with
\* probability above 1/2.
TargetIsTheLikelyOutcome ==
    (/\ call.op = "build_circuit"
     /\ self = [n |-> 3, target |-> <<"1", "0", "1">>]
     /\ call.k = 2
     /\ sim.kind = "dist")
    => \E i \in DOMAIN sim.key :
          /\ sim.key[i] = self.target
          /\ 2 * sim.weight[i] > sim.total
          /\ \A j \in DOMAIN sim.key : j # i => /\ sim.key[j] # self.target
                                                /\ sim.weight[j] < sim.weight[i]

\* C9 happens: the circuit for "101" with 2 rounds has been run, and "101"
\* (index 5) has probability 121/128.
TargetIsTheLikelyOutcomeWitness ==
    /\ call.op = "build_circuit"
    /\ self = [n |-> 3, target |-> <<"1", "0", "1">>]
    /\ call.k = 2
    /\ sim.kind = "dist"
    /\ sim.key[6] = <<"1", "0", "1">>
    /\ sim.weight[6] = 121
    /\ sim.total = 128

\* C10: whatever calls were made on a builder, its n and target are those it
\* was constructed with, and build_circuit(k) returns what a fresh builder
\* with the same n and target returns for k.
BuilderKeepsNoState ==
    self # NoObject
    => /\ self = [n |-> ctor.n, target |-> ctor.target]
       /\ call.op = "build_circuit"
          => ret = build_circuit(GroverInit(ctor.n, ctor.target).obj, call.k).val

\* C10 happens: build_circuit(0) right after build_circuit(2) on the same
\* builder.
BuilderKeepsNoStateWitness ==
    /\ self = [n |-> 2, target |-> <<"0", "1">>]
    /\ prev = [op |-> "build_circuit", k |-> 2]
    /\ call.op = "build_circuit"
    /\ call.k = 0
    /\ ret.kind = "circuit"
    /\ Len(ret.data) = 4

====
